---- MODULE Spec2Model ----
(***************************************************************************)
(* Conway's Game of Life on a toroidal grid: the Universe of src/lib.rs.   *)
(* A Universe is width, height and a row-major vector of cells.  Cells are *)
(* their u8 discriminants (Dead = 0, Alive = 1).  Rust indices are 0-based *)
(* and TLA+ sequences 1-based: cells[idx] of the source is cells[idx + 1]. *)
(* All dimensions of the model are far below 2^32, so the u32 arithmetic   *)
(* of the source never wraps here and is modelled by integer arithmetic.   *)
(***************************************************************************)
EXTENDS Integers, Sequences, FiniteSets

VARIABLES
    width,      \* Universe.width
    height,     \* Universe.height
    cells,      \* Universe.cells
    constructed, \* the Universe as it was constructed
    snapshot,   \* self.cells as read by the last tick (the pre-tick generation)
    writes,     \* the flat indices the last tick wrote into next, in order
    panicked,   \* TRUE once an operation has panicked
    generation, \* number of ticks since construction
    last,       \* the last operation: "new", "literal", "tick", "render", "get_index"
    rendered,   \* the texts returned by render since the last tick
    ret         \* the last get_index call and what it returned

vars == <<width, height, cells, constructed, snapshot, writes, panicked, generation, last, rendered, ret>>

\* ---------------------------------------------------------------- bounds
MaxCells == 8
MaxTicks == 2
MaxRenders == 2
MaxIndexDim == 5
MaxCoord == 6

\* ------------------------------------------------------------- constants
Dead == 0
Alive == 1
NewWidth == 64
NewHeight == 64
DeadSymbol == 9723
AliveSymbol == 9724
Newline == 10

Cell == {Dead, Alive}

Min(a, b) == IF a < b THEN a ELSE b

\* ------------------------------------------------------------- get_index
\* variant: the row stride taken from height
get_index_height(u, row, column) == row * u.height + column

get_index(u, row, column) == row * u.width + column

\* --------------------------------------------------- live_neighbor_count
\* [self.height - 1, 0, 1] and [self.width - 1, 0, 1]
Deltas(dim) == <<dim - 1, 0, 1>>

\* the values a loop variable takes
Elements(deltas) == {deltas[1], deltas[2], deltas[3]}

\* if delta_row == 0 && delta_col == 0 { continue; }
Skipped(delta_row, delta_col) == delta_row = 0 /\ delta_col = 0

\* variant: the row not reduced modulo height
neighbor_row_nowrap(u, row, delta_row) == row + delta_row

neighbor_row(u, row, delta_row) == (row + delta_row) % u.height

neighbor_col(u, column, delta_col) == (column + delta_col) % u.width

neighbor_idx(u, row, column, delta_row, delta_col) ==
    get_index(u, neighbor_row(u, row, delta_row), neighbor_col(u, column, delta_col))

\* what one iteration of the inner loop adds to count
CountCell(u, row, column, delta_row, delta_col) ==
    IF Skipped(delta_row, delta_col) THEN 0
    ELSE u.cells[neighbor_idx(u, row, column, delta_row, delta_col) + 1]

\* for delta_col in [self.width - 1, 0, 1]
CountRow(u, row, column, delta_row) ==
    LET cols == Deltas(u.width)
    IN  CountCell(u, row, column, delta_row, cols[1])
        + CountCell(u, row, column, delta_row, cols[2])
        + CountCell(u, row, column, delta_row, cols[3])

\* what makes live_neighbor_count panic: unsigned underflow of dim - 1,
\* modulo by zero, a flat index outside the vector
CountPanics(u, row, column) ==
    \/ Deltas(u.height)[1] < 0
    \/ Deltas(u.width)[1] < 0
    \/ u.height = 0
    \/ u.width = 0
    \/ \E delta_row \in Elements(Deltas(u.height)), delta_col \in Elements(Deltas(u.width)) :
          /\ ~Skipped(delta_row, delta_col)
          /\ (neighbor_idx(u, row, column, delta_row, delta_col) + 1) \notin DOMAIN u.cells

\* for delta_row in [self.height - 1, 0, 1]
live_neighbor_count(u, row, column) ==
    LET rows == Deltas(u.height)
    IN  CountRow(u, row, column, rows[1])
        + CountRow(u, row, column, rows[2])
        + CountRow(u, row, column, rows[3])

\* ------------------------------------------------------------------ tick
\* variant: the match of tick without its birth arm
NextCellNoBirth(cell, x) ==
    IF cell = Alive /\ x < 2 THEN Dead
    ELSE IF cell = Alive /\ (x = 2 \/ x = 3) THEN Alive
    ELSE IF cell = Alive /\ x > 3 THEN Dead
    ELSE cell

\* variant: birth with up to 3 live neighbours
NextCellBirthUpTo3(cell, x) ==
    IF cell = Alive /\ x < 2 THEN Dead
    ELSE IF cell = Alive /\ (x = 2 \/ x = 3) THEN Alive
    ELSE IF cell = Alive /\ x > 3 THEN Dead
    ELSE IF cell = Dead /\ x <= 3 THEN Alive
    ELSE cell

\* the match of tick
NextCell(cell, x) ==
    IF cell = Alive /\ x < 2 THEN Dead
    ELSE IF cell = Alive /\ (x = 2 \/ x = 3) THEN Alive
    ELSE IF cell = Alive /\ x > 3 THEN Dead
    ELSE IF cell = Dead /\ x = 3 THEN Alive
    ELSE cell

\* variant: the iteration reading the vector being written
TickCellInPlace(u, acc, row, col) ==
    LET idx == get_index(u, row, col)
        w   == [u EXCEPT !.cells = acc.next]
    IN  IF (idx + 1) \notin DOMAIN u.cells \/ CountPanics(w, row, col)
        THEN [acc EXCEPT !.ok = FALSE]
        ELSE [next   |-> [acc.next EXCEPT ![idx + 1] =
                              NextCell(acc.next[idx + 1], live_neighbor_count(w, row, col))],
              writes |-> Append(acc.writes, idx),
              ok     |-> TRUE]

\* one iteration of the inner loop; acc is [next, writes, ok]
TickCell(u, acc, row, col) ==
    LET idx == get_index(u, row, col)
    IN  IF (idx + 1) \notin DOMAIN u.cells \/ CountPanics(u, row, col)
        THEN [acc EXCEPT !.ok = FALSE]
        ELSE [next   |-> [acc.next EXCEPT ![idx + 1] =
                              NextCell(u.cells[idx + 1], live_neighbor_count(u, row, col))],
              writes |-> Append(acc.writes, idx),
              ok     |-> TRUE]

\* for col in lo..hi, in order.  The range is split in halves, the first
\* half's result feeding the second unless it panicked: the same iterations
\* in the same order as the loop, with a recursion of logarithmic depth.
RECURSIVE TickCols(_, _, _, _, _)
TickCols(u, acc, row, lo, hi) ==
    IF lo >= hi THEN acc
    ELSE IF hi = lo + 1 THEN TickCell(u, acc, row, lo)
    ELSE LET first == TickCols(u, acc, row, lo, (lo + hi) \div 2)
         IN  IF first.ok THEN TickCols(u, first, row, (lo + hi) \div 2, hi) ELSE first

\* for row in lo..hi, in order: for col in 0..self.width
RECURSIVE TickRows(_, _, _, _)
TickRows(u, acc, lo, hi) ==
    IF lo >= hi THEN acc
    ELSE IF hi = lo + 1 THEN TickCols(u, acc, lo, 0, u.width)
    ELSE LET first == TickRows(u, acc, lo, (lo + hi) \div 2)
         IN  IF first.ok THEN TickRows(u, first, (lo + hi) \div 2, hi) ELSE first

\* variant: the new vector one cell short
TickResultShort(u) ==
    LET r == TickRows(u, [next |-> u.cells, writes |-> <<>>, ok |-> TRUE], 0, u.height)
    IN  [r EXCEPT !.next = SubSeq(r.next, 1, Len(r.next) - 1)]

\* let mut next = self.cells.clone(); for row in 0..self.height { ... }
TickResult(u) ==
    TickRows(u, [next |-> u.cells, writes |-> <<>>, ok |-> TRUE], 0, u.height)

\* ------------------------------------------------------------------- new
\* variant: divisibility by 3 in place of 7
NewCellsBy3(w, h) == [i \in 1..(w * h) |->
    IF (i - 1) % 2 = 0 \/ (i - 1) % 3 = 0 THEN Alive ELSE Dead]

\* (0..width * height).map(...).collect()
NewCells(w, h) == [i \in 1..(w * h) |->
    IF (i - 1) % 2 = 0 \/ (i - 1) % 7 = 0 THEN Alive ELSE Dead]

New == [width |-> NewWidth, height |-> NewHeight, cells |-> NewCells(NewWidth, NewHeight)]

\* ---------------------------------------------------- render / Display
\* self.cells.as_slice().chunks(self.width as usize)
RECURSIVE Chunks(_, _)
Chunks(s, n) ==
    IF Len(s) = 0 THEN <<>>
    ELSE <<SubSeq(s, 1, Min(n, Len(s)))>> \o Chunks(SubSeq(s, Min(n, Len(s)) + 1, Len(s)), n)

Symbol(cell) == IF cell = Dead THEN DeadSymbol ELSE AliveSymbol

FmtLine(line) == [k \in 1..Len(line) |-> Symbol(line[k])] \o <<Newline>>

RECURSIVE FmtLines(_, _)
FmtLines(lines, k) ==
    IF k > Len(lines) THEN <<>> ELSE FmtLine(lines[k]) \o FmtLines(lines, k + 1)

\* the text to_string() returns, as its sequence of characters
Fmt(u) == FmtLines(Chunks(u.cells, u.width), 1)

\* ----------------------------------------------------------------- state
Self == [width |-> width, height |-> height, cells |-> cells]

NoRet == [row |-> 0, column |-> 0, index |-> 0, panicked |-> FALSE]

\* the universes the tests build as struct literals: 5x5, all Dead, and
\* the vertical blinker
TestDim == 5

AllDead(w, h) == [i \in 1..(w * h) |-> Dead]

Blinker == [i \in 1..(TestDim * TestDim) |-> IF i \in {8, 13, 18} THEN Alive ELSE Dead]

Constructed(u, how) ==
    /\ width = u.width
    /\ height = u.height
    /\ cells = u.cells
    /\ constructed = u
    /\ snapshot = u.cells
    /\ writes = <<>>
    /\ panicked = FALSE
    /\ generation = 0
    /\ last = how
    /\ rendered = <<>>
    /\ ret = NoRet

InitNew == Constructed(New, "new")

InitTests ==
    \E c \in {AllDead(TestDim, TestDim), Blinker} :
        Constructed([width |-> TestDim, height |-> TestDim, cells |-> c], "literal")

InitLiteral ==
    \E w \in 1..MaxCells, h \in 1..MaxCells :
        /\ w * h <= MaxCells
        /\ \E c \in [1..(w * h) -> Cell] :
              Constructed([width |-> w, height |-> h, cells |-> c], "literal")

Init == InitNew \/ InitTests \/ InitLiteral

\* ---------------------------------------------------------------- actions
Tick ==
    /\ generation < MaxTicks
    /\ ~panicked
    /\ \E r \in {TickResult(Self)} :
           /\ cells' = IF r.ok THEN r.next ELSE cells
           /\ writes' = r.writes
           /\ panicked' = ~r.ok
    /\ snapshot' = cells
    /\ generation' = generation + 1
    /\ last' = "tick"
    /\ rendered' = <<>>
    /\ UNCHANGED <<width, height, constructed, ret>>

\* variant: a render that also advances the universe
RenderThenTick ==
    /\ Len(rendered) < MaxRenders
    /\ ~panicked
    /\ rendered' = Append(rendered, Fmt(Self))
    /\ \E r \in {TickResult(Self)} : cells' = r.next
    /\ last' = "render"
    /\ UNCHANGED <<width, height, constructed, snapshot, writes, panicked, generation, ret>>

Render ==
    /\ Len(rendered) < MaxRenders
    /\ ~panicked
    /\ rendered' = Append(rendered, Fmt(Self))
    /\ last' = "render"
    /\ UNCHANGED <<width, height, cells, constructed, snapshot, writes, panicked, generation, ret>>

Next == Tick \/ Render

Spec == Init /\ [][Next]_vars

\* ------------------------------------------- get_index as a pure function
InitIndex ==
    \E w \in 1..MaxIndexDim, h \in 1..MaxIndexDim :
        Constructed([width |-> w, height |-> h, cells |-> AllDead(w, h)], "literal")

GetIndexCall ==
    \E row \in 0..MaxCoord, column \in 0..MaxCoord :
        /\ ret' = [row |-> row, column |-> column,
                   index |-> get_index(Self, row, column), panicked |-> FALSE]
        /\ last' = "get_index"
        /\ UNCHANGED <<width, height, cells, constructed, snapshot, writes, panicked,
                       generation, rendered>>

NextIndex == GetIndexCall

SpecIndex == InitIndex /\ [][NextIndex]_vars

\* ---------------------------------------------------------------- claims
Rows == 0..(height - 1)
Cols == 0..(width - 1)
CellAt(cs, row, col) == cs[row * width + col + 1]

\* C1: after a tick every in-range cell holds what the rule of Life gives for
\* its pre-tick state s and the pre-tick value n of live_neighbor_count:
\* Alive with n < 2 dies, Alive with n of 2 or 3 stays Alive, Alive with
\* n > 3 dies, Dead with n = 3 becomes Alive, Dead otherwise stays Dead;
\* nothing written during the tick is read by it.
RuleOfLife(s, n) ==
    CASE s = Alive /\ n < 2 -> Dead
      [] s = Alive /\ n \in {2, 3} -> Alive
      [] s = Alive /\ n > 3 -> Dead
      [] s = Dead /\ n = 3 -> Alive
      [] s = Dead /\ n # 3 -> Dead

C1_TickRule ==
    generation >= 1 =>
        LET pre == [width |-> width, height |-> height, cells |-> snapshot]
        IN  \A row \in Rows, col \in Cols :
                CellAt(cells, row, col) =
                    RuleOfLife(CellAt(snapshot, row, col), live_neighbor_count(pre, row, col))

C1_Witness ==
    /\ last = "tick"
    /\ \E i \in DOMAIN cells : snapshot[i] = Dead /\ cells[i] = Alive
    /\ \E i \in DOMAIN cells : snapshot[i] = Alive /\ cells[i] = Dead
    /\ \E i \in DOMAIN cells : snapshot[i] = Alive /\ cells[i] = Alive

\* C2: in every state reached by ticks and renders the vector has
\* width * height cells, and width and height are those of construction.
C2_GridSize ==
    /\ Len(cells) = width * height
    /\ width = constructed.width
    /\ height = constructed.height

C2_Witness ==
    /\ generation >= 2
    /\ Len(rendered) >= 1
    /\ Len(cells) = width * height
    /\ cells # constructed.cells

\* C3: Universe::new gives width 64, height 64, 4096 cells, the cell at flat
\* index i Alive exactly when i is divisible by 2 or by 7.
C3_NewUniverse ==
    last = "new" =>
        /\ width = 64
        /\ height = 64
        /\ Len(cells) = 4096
        /\ \A i \in 0..4095 : cells[i + 1] \in Cell
        /\ \A i \in 0..4095 :
              cells[i + 1] = Alive <=> (i % 2 = 0 \/ i % 7 = 0)

C3_Witness ==
    /\ last = "new"
    /\ generation = 0
    /\ cells[1] = Alive
    /\ cells[8] = Alive
    /\ cells[10] = Dead

\* C4: the 5x5 universe with only (1,2), (2,2), (3,2) Alive has only (2,1),
\* (2,2), (2,3) Alive after one tick and is back after two: after an even
\* number of ticks it is the vertical line, after an odd number the
\* horizontal one.
Grid5(alive) == [i \in 1..25 |-> IF <<(i - 1) \div 5, (i - 1) % 5>> \in alive THEN Alive ELSE Dead]

Vertical == Grid5({<<1, 2>>, <<2, 2>>, <<3, 2>>})

Horizontal == Grid5({<<2, 1>>, <<2, 2>>, <<2, 3>>})

StartedVertical == constructed = [width |-> 5, height |-> 5, cells |-> Vertical]

C4_BlinkerOscillates ==
    StartedVertical =>
        /\ generation % 2 = 0 => cells = Vertical
        /\ generation % 2 = 1 => cells = Horizontal

C4_Witness ==
    /\ StartedVertical
    /\ generation = 2
    /\ snapshot = Horizontal
    /\ cells = Vertical

\* C5: a universe constructed all Dead stays all Dead under any number of
\* ticks, and live_neighbor_count is 0 at every coordinate.
C5_NoSpontaneousBirth ==
    (\A i \in DOMAIN constructed.cells : constructed.cells[i] = Dead) =>
        /\ \A i \in DOMAIN cells : cells[i] = Dead
        /\ \A row \in Rows, col \in Cols : live_neighbor_count(Self, row, col) = 0

C5_Witness ==
    /\ \A i \in DOMAIN constructed.cells : constructed.cells[i] = Dead
    /\ generation >= 2
    /\ width >= 2
    /\ height >= 2
    /\ \A i \in DOMAIN cells : cells[i] = Dead

\* C6: every text render returned since the last tick is height lines of
\* width glyphs each followed by a line terminator, the glyph of line r at
\* position c the Alive glyph exactly when cells[r * width + c] is Alive,
\* the two glyphs distinct; so all these texts are equal and render has left
\* the universe as it was.
WellRendered(text) ==
    /\ Len(text) = height * (width + 1)
    /\ \A r \in Rows :
          /\ text[r * (width + 1) + width + 1] = Newline
          /\ \A c \in Cols :
                /\ text[r * (width + 1) + c + 1] \in {AliveSymbol, DeadSymbol}
                /\ text[r * (width + 1) + c + 1] = AliveSymbol <=> CellAt(cells, r, c) = Alive
    /\ Cardinality({k \in DOMAIN text : text[k] = Newline}) = height

RenderedRight ==
    /\ AliveSymbol # DeadSymbol
    /\ Newline \notin {AliveSymbol, DeadSymbol}
    /\ \A k \in DOMAIN rendered : WellRendered(rendered[k])
    /\ \A j, k \in DOMAIN rendered : rendered[j] = rendered[k]

RenderReadsOnly ==
    Len(rendered') > Len(rendered) => UNCHANGED <<width, height, cells>>

C6_Render == [](RenderedRight) /\ [][RenderReadsOnly]_vars

C6_Witness ==
    /\ Len(rendered) = 2
    /\ rendered[1] = rendered[2]
    /\ generation >= 1
    /\ \E i, j \in DOMAIN cells : cells[i] = Alive /\ cells[j] = Dead

\* C7: live_neighbor_count(row, column) is in 0..8 and is the sum of the
\* values of the cells at ((row + dr) mod height, (column + dc) mod width)
\* over the 8 offsets (dr, dc) other than (0, 0); with only (0, 0) Alive the
\* count at (height - 1, width - 1) is at least 1.
Offsets == {p \in {-1, 0, 1} \X {-1, 0, 1} : p # <<0, 0>>}

RECURSIVE SumOver(_, _, _)
SumOver(S, row, col) ==
    IF S = {} THEN 0
    ELSE LET p == CHOOSE q \in S : TRUE
         IN  CellAt(cells, (row + p[1] + height) % height, (col + p[2] + width) % width)
             + SumOver(S \ {p}, row, col)

C7_ToroidalCount ==
    /\ \A row \in Rows, col \in Cols :
          /\ live_neighbor_count(Self, row, col) \in 0..8
          /\ live_neighbor_count(Self, row, col) = SumOver(Offsets, row, col)
    /\ (\A i \in DOMAIN cells : cells[i] = Alive <=> i = 1) =>
          live_neighbor_count(Self, height - 1, width - 1) >= 1

\* C8: get_index called with row >= height or column >= width fails and
\* returns no index.
C8_OutOfRangeFails ==
    (last = "get_index" /\ (ret.row >= height \/ ret.column >= width)) => ret.panicked

\* C9: on in-range coordinates get_index is row * width + column, a
\* bijection onto 0..width * height - 1; get_index(1, 2) = 7 when 5x5.
C9_IndexBijection ==
    /\ \A row \in Rows, col \in Cols : get_index(Self, row, col) \in 0..(width * height - 1)
    /\ \A r1, r2 \in Rows, c1, c2 \in Cols :
          get_index(Self, r1, c1) = get_index(Self, r2, c2) => (r1 = r2 /\ c1 = c2)
    /\ \A i \in 0..(width * height - 1) :
          \E row \in Rows, col \in Cols : get_index(Self, row, col) = i
    /\ (width = 5 /\ height = 5) => get_index(Self, 1, 2) = 7
    /\ (last = "get_index" /\ ret.row \in Rows /\ ret.column \in Cols) =>
          (~ret.panicked /\ ret.index = ret.row * width + ret.column)

C9_Witness ==
    /\ last = "get_index"
    /\ width = 5
    /\ height = 5
    /\ ret.row = 1
    /\ ret.column = 2
    /\ ret.index = 7

\* C10: with width >= 1, height >= 1 and width * height cells no tick
\* panics: every neighbour coordinate live_neighbor_count computes is in
\* range, every flat index lies in 0..width * height - 1, nothing underflows
\* or divides by zero, and a tick writes each cell exactly once.
C10_TickNeverFails ==
    /\ ~panicked
    /\ \A delta_row \in Elements(Deltas(height)) :
          delta_row >= 0 /\ \A row \in Rows : neighbor_row(Self, row, delta_row) \in Rows
    /\ \A delta_col \in Elements(Deltas(width)) :
          delta_col >= 0 /\ \A col \in Cols : neighbor_col(Self, col, delta_col) \in Cols
    /\ \A row \in Rows, col \in Cols :
          /\ ~CountPanics(Self, row, col)
          /\ get_index(Self, row, col) \in 0..(width * height - 1)
    /\ generation >= 1 =>
          /\ Len(writes) = width * height
          /\ {writes[k] : k \in DOMAIN writes} = 0..(width * height - 1)

C10_Witness ==
    /\ last = "tick"
    /\ width = 1
    /\ height = 1
    /\ cells = <<Dead>>
    /\ snapshot = <<Alive>>
    /\ writes = <<0>>

====
